---- MODULE Spec2Model ----
(***************************************************************************)
(* Session authentication, role guard and role routing of the management   *)
(* application: the monolithic app (src/app.py) and the blueprint login /  *)
(* logout (src/auth.py), over one User / Client / Project store and the    *)
(* signed session cookies Flask hands to its clients. The two login pages  *)
(* are served side by side: both bind the same flask_login session, and    *)
(* the routes of app.py resolve the identity of either.                    *)
(***************************************************************************)
EXTENDS Integers, Sequences, FiniteSets, TLC

\* ------------------------------------------------------------------ bounds
\* User rows provisioned in the store before the application first starts.
MaxProvisioned == 1
\* Session cookies issued by login_user.
MaxTokens == 2
\* Client rows created through add_client.
MaxClients == 1

\* ------------------------------------------------------------ plain values
\* Python's None, as a form field that is absent or a column left NULL.
None == "None"
\* The AnonymousUser of flask_login: no identity resolved.
Anonymous == 0
\* A cookie jar without a session cookie (an empty session).
NoToken == 0

Methods == {"GET", "POST"}

\* Usernames and emails of the provisioned rows (unique, as the columns are).
ProvNames == <<"ann", "bob", "cy", "dee">>
ProvEmails == <<"ann@example.com", "bob@example.com", "cy@example.com", "dee@example.com">>
ProvPassword == "secret"
AdminEmail == "admin@company.com"
AdminPassword == "admin123"

\* ------------------------------------------------------------ flash texts
InvalidCredentials == "Please check your login details and try again."
AccountDeactivated == "Your account has been deactivated."
LoggedIn == "Logged in successfully!"
LoggedOut == "You have been logged out."
AccessDenied == "Access denied."
ClientAdded == "Client added successfully!"
ProfileUpdated == "Profile updated successfully!"
LoginMessage == "Please log in to access this page."
NoFlash == "-"

VARIABLES
    users,       \* the User table: a sequence of rows, users[i].id = i
    clients,     \* the Client table
    projects,    \* the Project table
    db_created,  \* db.create_all() has run
    tokens,      \* the session cookies issued so far: tokens[t] is cookie t's content
    cookie,      \* the session cookie the client presents, or NoToken
    terminated,  \* the cookies a logout request has been answered for
    resp,        \* the request answered by the last step and its response
                 \* (NoRequest when the last step was not a request)
    inflight     \* requests received and not yet answered, when the steps of
                 \* two requests are interleaved

vars == <<users, clients, projects, db_created, tokens, cookie, terminated, resp,
          inflight>>

\* ------------------------------------------------------- password hashing
\* werkzeug's one-way salted hash; its format is opaque to the callers.
generate_password_hash(password) == <<"pbkdf2:sha256", password>>

\* A check that accepts whatever password is given (the comparison dropped).
check_password_hash_any(pwhash, password) ==
    IF password = None THEN "AttributeError" ELSE "True"

\* check_password_hash: re-hash the candidate and compare; a candidate that is
\* None has no .encode() and raises AttributeError.
check_password_hash(pwhash, password) ==
    IF password = None THEN "AttributeError"
    ELSE IF pwhash = generate_password_hash(password) THEN "True" ELSE "False"

\* ------------------------------------------------------------- the store
UserRow(i, username, email, password, role, first, last) ==
    [id |-> i, username |-> username, email |-> email,
     password_hash |-> generate_password_hash(password), role |-> role,
     first_name |-> first, last_name |-> last, phone |-> None, is_active |-> TRUE]

Provisioned(i, role) ==
    UserRow(i, ProvNames[i], ProvEmails[i], ProvPassword, role, None, None)

\* The stores the application can be started on: up to MaxProvisioned rows,
\* each of role admin or client, is_active at its column default.
InitUsers ==
    UNION {{[i \in 1..n |-> Provisioned(i, r[i])] : r \in [1..n -> {"admin", "client"}]}
           : n \in 0..MaxProvisioned}

\* User.query.filter_by(email=email).first(): the id of the row, or Anonymous
\* (0) for None.
find_by_email(email) ==
    IF \E i \in DOMAIN users : users[i].email = email
    THEN CHOOSE i \in DOMAIN users : users[i].email = email
    ELSE 0

\* User.query.get(int(user_id)): the row of that primary key, or None.
load_user(user_id) ==
    IF user_id \in DOMAIN users THEN user_id ELSE Anonymous

\* flask_login's current_user of a request: the user_loader's answer for the
\* _user_id of the session cookie presented, re-fetched on every request.
current_user ==
    IF cookie = NoToken THEN Anonymous ELSE load_user(tokens[cookie].user_id)


\* ------------------------------------------------------ is_active lookups
\* app.py's User.is_active: the property defined after the column of the same
\* name replaces it in the class body and returns self.is_active, which is
\* the property again: every read ends in RecursionError.
User_is_active(u) == "RecursionError"

\* auth.py imports User from models, a module that is not part of the kept
\* sources: there is_active is the plain boolean column of the data model.
models_User_is_active(u) == IF users[u].is_active THEN "True" ELSE "False"

\* ------------------------------------------------------------ responses
NoForm == [none |-> None]
NoData == [none |-> None]

\* The record of a request and of what the handler answered; form holds the
\* fields the handler read (NoForm when it read none). user, role,
\* user_active and replayed are taken when the identity is resolved; session
\* is the cookie the client holds once the response has arrived; hops is the
\* number of redirects the client has followed to get to this request.
\* The longest chain of redirects the model counts.
MaxHops == 3

\* The request is the client following the redirect it was last answered
\* with: a GET of the redirect's target with the cookie of that response.
Followed(route, method) ==
    /\ resp.status = "redirect"
    /\ resp.target = route
    /\ method = "GET"
    /\ resp.session = cookie

Reply(route, method, form, status, target, flash, guard, body, data) ==
    /\ resp' = [route |-> route, method |-> method, form |-> form,
                token |-> cookie,
                replayed |-> cookie \in terminated,
                user |-> current_user,
                role |-> IF current_user = Anonymous THEN None
                         ELSE users[current_user].role,
                user_active |-> IF current_user = Anonymous THEN FALSE
                                ELSE users[current_user].is_active,
                status |-> status, target |-> target, flash |-> flash,
                guard |-> guard, body |-> body, data |-> data,
                session |-> cookie',
                hops |-> IF Followed(route, method)
                         THEN IF resp.hops < MaxHops THEN resp.hops + 1
                              ELSE MaxHops
                         ELSE 0]
    /\ UNCHANGED inflight

NoRequest ==
    [route |-> "-", method |-> "GET", form |-> NoForm,
     token |-> NoToken, replayed |-> FALSE, user |-> Anonymous, role |-> None,
     user_active |-> FALSE, status |-> "-", target |-> "-", flash |-> NoFlash,
     guard |-> FALSE, body |-> FALSE, data |-> NoData, session |-> NoToken,
     hops |-> 0]

\* @login_required: the view runs only for an authenticated current_user.
login_required == current_user # Anonymous

\* login_manager.unauthorized(): flash the login message and redirect to
\* login_view ('login'); the view function is not called.
unauthorized(route, method) ==
    /\ UNCHANGED <<users, clients, projects, db_created, tokens, cookie, terminated>>
    /\ Reply(route, method, NoForm, "redirect", "login", LoginMessage, FALSE, FALSE, NoData)

\* A response that changes neither the store nor the session.
Answer(route, method, form, status, target, flash, guard, body, data) ==
    /\ UNCHANGED <<users, clients, projects, db_created, tokens, cookie, terminated>>
    /\ Reply(route, method, form, status, target, flash, guard, body, data)

\* flask_login's login_user once user.is_active has answered True: the
\* session gets the user's id (a new signed cookie is set on the response).
\* The remember flag only chooses the cookie's lifetime in the client, which
\* is not modelled.
login_user(user) ==
    /\ Len(tokens) < MaxTokens
    /\ tokens' = Append(tokens, [user_id |-> users[user].id])
    /\ cookie' = Len(tokens) + 1

\* flask_login's logout_user: _user_id is popped from the session, so the
\* response replaces the client's cookie by one without identity. Nothing is
\* kept on the server about the cookie that was presented.
logout_user_keeps ==
    /\ cookie' = cookie
    /\ terminated' = terminated \cup {cookie}

logout_user ==
    /\ cookie' = NoToken
    /\ terminated' = terminated \cup {cookie}


\* ---------------------------------------------------------- request inputs
LoginEmails == {users[i].email : i \in DOMAIN users} \cup {"nobody@example.com"}
LoginPasswords == {AdminPassword, ProvPassword, None}
LoginForms == [email : LoginEmails, password : LoginPasswords]

\* ------------------------------------------------------ app.py: /login
\* The role-conditional redirect of app.py's login.
app_landing(role) == IF role = "admin" THEN "admin_dashboard" ELSE "client_dashboard"

login(method, form) ==
    /\ db_created
    /\ LET cu == current_user
           user == find_by_email(form.email)
           checked == IF user = 0 THEN "False"
                      ELSE check_password_hash(users[user].password_hash, form.password)
       IN
       IF cu # Anonymous
       THEN \* current_user.is_authenticated: redirect by role
            Answer("login", method, NoForm, "redirect",
                   app_landing(users[cu].role), NoFlash, FALSE, FALSE, NoData)
       ELSE IF method = "GET"
       THEN Answer("login", method, form, "render", "login.html",
                   NoFlash, FALSE, FALSE, NoData)
       ELSE IF user = 0 \/ checked = "False"
       THEN \* not user or not user.check_password(password)
            Answer("login", method, form, "redirect", "login",
                   InvalidCredentials, FALSE, TRUE, NoData)
       ELSE IF checked # "True"
       THEN \* check_password raised
            Answer("login", method, form, "fault", checked,
                   NoFlash, FALSE, TRUE, NoData)
       ELSE IF User_is_active(user) \notin {"True", "False"}
       THEN \* login_user reads user.is_active, which raises
            Answer("login", method, form, "fault", User_is_active(user),
                   NoFlash, FALSE, TRUE, NoData)
       ELSE IF User_is_active(user) = "False"
       THEN \* login_user returns False; its result is not looked at
            Answer("login", method, form, "redirect",
                   app_landing(users[user].role), LoggedIn, FALSE, TRUE, NoData)
       ELSE /\ login_user(user)
            /\ UNCHANGED <<users, clients, projects, db_created, terminated>>
            /\ Reply("login", method, form, "redirect",
                     app_landing(users[user].role), LoggedIn, FALSE, TRUE, NoData)

\* ------------------------------------------------------ auth.py: /login
\* The role-conditional redirect of auth.py's login.
auth_landing(role) == IF role = "admin" THEN "admin.dashboard" ELSE "client.dashboard"

\* auth.py's redirect of an authenticated visitor of the login page.
auth_revisit(role) == "dashboard"

auth_login(method, form) ==
    /\ db_created
    /\ LET cu == current_user
           user == find_by_email(form.email)
           checked == IF user = 0 THEN "False"
                      ELSE check_password_hash(users[user].password_hash, form.password)
       IN
       IF cu # Anonymous
       THEN Answer("auth.login", method, NoForm, "redirect",
                   auth_revisit(users[cu].role), NoFlash, FALSE, FALSE, NoData)
       ELSE IF method = "GET"
       THEN Answer("auth.login", method, form, "render", "login.html",
                   NoFlash, FALSE, FALSE, NoData)
       ELSE IF user = 0 \/ checked = "False"
       THEN Answer("auth.login", method, form, "redirect", "auth.login",
                   InvalidCredentials, FALSE, TRUE, NoData)
       ELSE IF checked # "True"
       THEN Answer("auth.login", method, form, "fault", checked,
                   NoFlash, FALSE, TRUE, NoData)
       ELSE IF models_User_is_active(user) # "True"
       THEN \* if not user.is_active
            Answer("auth.login", method, form, "redirect", "auth.login",
                   AccountDeactivated, FALSE, TRUE, NoData)
       ELSE /\ login_user(user)
            /\ UNCHANGED <<users, clients, projects, db_created, terminated>>
            /\ Reply("auth.login", method, form, "redirect",
                     auth_landing(users[user].role), LoggedIn, FALSE, TRUE, NoData)

\* ------------------------------------------------------------- /logout
\* logout without its @login_required decorator.
logout_undecorated ==
    /\ db_created
    /\ logout_user
    /\ UNCHANGED <<users, clients, projects, db_created, tokens>>
    /\ Reply("logout", "GET", NoForm, "redirect", "index",
             LoggedOut, FALSE, FALSE, NoData)

logout ==
    /\ db_created
    /\ IF ~login_required
       THEN unauthorized("logout", "GET")
       ELSE /\ logout_user
            /\ UNCHANGED <<users, clients, projects, db_created, tokens>>
            /\ Reply("logout", "GET", NoForm, "redirect", "index",
                     LoggedOut, FALSE, FALSE, NoData)

auth_logout ==
    /\ db_created
    /\ IF ~login_required
       THEN unauthorized("auth.logout", "GET")
       ELSE /\ logout_user
            /\ UNCHANGED <<users, clients, projects, db_created, tokens>>
            /\ Reply("auth.logout", "GET", NoForm, "redirect", "auth.login",
                     LoggedOut, FALSE, FALSE, NoData)

\* ------------------------------------------------------------------ /
index ==
    /\ db_created
    /\ Answer("index", "GET", NoForm, "render", "index.html",
              NoFlash, FALSE, FALSE, NoData)


\* ------------------------------------------------------------ admin routes
\* An admin check that lets every role through.
not_admin_never(role) == FALSE

\* The role check the three admin views open with: current_user.role != 'admin'.
not_admin(role) == role # "admin"

\* The role check of the client dashboard: current_user.role == 'admin'.
is_admin_always(role) == TRUE

is_admin(role) == role = "admin"

\* The five newest rows of a table, newest first (order_by created_at desc,
\* limit 5); rows are kept in creation order.
Recent(rows) ==
    [k \in 1..(IF Len(rows) < 5 THEN Len(rows) ELSE 5) |-> rows[Len(rows) + 1 - k]]

\* User.query.filter_by(is_active=True).count(): filter_by looks is_active up
\* on the class and finds the property object, not the column; the property
\* object compared with True is the constant False, the filter is the SQL
\* constant false, and the count is that of no row. The property is never
\* called, so the query does not recurse.
is_active_filter(u) == FALSE

active_users == Cardinality({i \in DOMAIN users : is_active_filter(users[i])})

admin_dashboard ==
    /\ db_created
    /\ IF ~login_required
       THEN unauthorized("admin_dashboard", "GET")
       ELSE IF not_admin(users[current_user].role)
       THEN Answer("admin_dashboard", "GET", NoForm, "redirect",
                   "client_dashboard", AccessDenied, TRUE, FALSE, NoData)
       ELSE Answer("admin_dashboard", "GET", NoForm, "render",
                   "admin/dashboard.html", NoFlash, TRUE, TRUE,
                   [stats |-> [total_clients |-> Len(clients),
                               total_projects |-> Len(projects),
                               pending_invoices |-> 0,
                               active_users |-> active_users],
                    recent_clients |-> Recent(clients),
                    recent_projects |-> Recent(projects)])

admin_clients ==
    /\ db_created
    /\ IF ~login_required
       THEN unauthorized("admin_clients", "GET")
       ELSE IF not_admin(users[current_user].role)
       THEN Answer("admin_clients", "GET", NoForm, "redirect",
                   "client_dashboard", AccessDenied, TRUE, FALSE, NoData)
       ELSE Answer("admin_clients", "GET", NoForm, "render",
                   "admin/clients.html", NoFlash, TRUE, TRUE,
                   [clients |-> clients])

\* The form of /admin/add-client: the fields the handler reads, and an owner
\* field (admin_id, 0 when absent) a client may add to the payload.
ClientForms ==
    [company_name : {"Acme", None}, email : {"office@acme.example", None},
     admin_id : 0..Len(users)]

\* A Client whose owner is read from the payload instead of the session.
new_client_from_payload(cu, form) ==
    [id |-> Len(clients) + 1, company_name |-> form.company_name,
     contact_person |-> None, email |-> form.email, phone |-> None,
     address |-> None, industry |-> None, status |-> "active",
     admin_id |-> form.admin_id]

\* Client(...) as add_client builds it: the owner is current_user.id.
new_client(cu, form) ==
    [id |-> Len(clients) + 1, company_name |-> form.company_name,
     contact_person |-> None, email |-> form.email, phone |-> None,
     address |-> None, industry |-> None, status |-> "active",
     admin_id |-> users[cu].id]

add_client(method, form) ==
    /\ db_created
    /\ IF ~login_required
       THEN unauthorized("add_client", method)
       ELSE IF not_admin(users[current_user].role)
       THEN Answer("add_client", method, NoForm, "redirect",
                   "client_dashboard", AccessDenied, TRUE, FALSE, NoData)
       ELSE IF method = "GET"
       THEN Answer("add_client", method, NoForm, "render",
                   "admin/add_client.html", NoFlash, TRUE, FALSE, NoData)
       ELSE IF form.company_name = None \/ form.email = None
       THEN \* nullable=False: the commit raises and the row is rolled back
            Answer("add_client", method, form, "fault", "IntegrityError",
                   NoFlash, TRUE, TRUE, NoData)
       ELSE /\ Len(clients) < MaxClients
            /\ clients' = Append(clients, new_client(current_user, form))
            /\ UNCHANGED <<users, projects, db_created, tokens, cookie, terminated>>
            /\ Reply("add_client", method, form, "redirect", "admin_clients",
                     ClientAdded, TRUE, TRUE, NoData)

\* ----------------------------------------------------------- client routes
user_projects_all(cu) == projects

\* Project.query.filter_by(user_id=current_user.id).all()
user_projects(cu) == SelectSeq(projects, LAMBDA p : p.user_id = users[cu].id)

WithStatus(rows, status) == Len(SelectSeq(rows, LAMBDA p : p.status = status))

client_dashboard ==
    /\ db_created
    /\ IF ~login_required
       THEN unauthorized("client_dashboard", "GET")
       ELSE IF is_admin(users[current_user].role)
       THEN Answer("client_dashboard", "GET", NoForm, "redirect",
                   "admin_dashboard", NoFlash, TRUE, FALSE, NoData)
       ELSE Answer("client_dashboard", "GET", NoForm, "render",
                   "client/dashboard.html", NoFlash, TRUE, TRUE,
                   [stats |-> [total_projects |-> Len(user_projects(current_user)),
                               completed_projects |->
                                   WithStatus(user_projects(current_user), "completed"),
                               pending_invoices |-> 0,
                               active_projects |->
                                   WithStatus(user_projects(current_user), "in_progress")],
                    projects |-> user_projects(current_user)])

ProfileForms ==
    {[first_name |-> "Pat", last_name |-> "Lee", phone |-> "555-0100"]}

\* A profile update that also takes the role from the payload.
update_profile_with_role(row, form) ==
    [row EXCEPT !.first_name = form.first_name,
                !.last_name = form.last_name,
                !.phone = form.phone,
                !.role = "admin"]

\* The three assignments to current_user of a profile POST.
update_profile(row, form) ==
    [row EXCEPT !.first_name = form.first_name,
                !.last_name = form.last_name,
                !.phone = form.phone]

\* /client/profile has @login_required and no role check.
client_profile(method, form) ==
    /\ db_created
    /\ IF ~login_required
       THEN unauthorized("client_profile", method)
       ELSE IF method = "POST"
       THEN /\ users' = [users EXCEPT ![current_user] =
                            update_profile(users[current_user], form)]
            /\ UNCHANGED <<clients, projects, db_created, tokens, cookie, terminated>>
            /\ Reply("client_profile", method, form, "redirect",
                     "client_profile", ProfileUpdated, FALSE, TRUE, NoData)
       ELSE Answer("client_profile", method, NoForm, "render",
                   "client/profile.html", NoFlash, FALSE, TRUE, NoData)

\* ---------------------------------------------------------------- bootstrap
\* A bootstrap that seeds the admin without looking for it first.
initialize_database_always ==
    /\ db_created' = TRUE
    /\ users' = Append(users, UserRow(Len(users) + 1, "admin", AdminEmail,
                                      AdminPassword, "admin",
                                      "System", "Administrator"))
    /\ UNCHANGED <<clients, projects, tokens, cookie, terminated, inflight>>
    /\ resp' = NoRequest

\* A bootstrap that seeds the first identity under a role of its own.
initialize_database_superuser ==
    /\ db_created' = TRUE
    /\ users' = IF find_by_email(AdminEmail) = 0
                THEN Append(users, UserRow(Len(users) + 1, "admin", AdminEmail,
                                           AdminPassword, "superuser",
                                           "System", "Administrator"))
                ELSE users
    /\ UNCHANGED <<clients, projects, tokens, cookie, terminated, inflight>>
    /\ resp' = NoRequest

initialize_database ==
    /\ db_created' = TRUE
    /\ users' = IF find_by_email(AdminEmail) = 0
                THEN Append(users, UserRow(Len(users) + 1, "admin", AdminEmail,
                                           AdminPassword, "admin",
                                           "System", "Administrator"))
                ELSE users
    /\ UNCHANGED <<clients, projects, tokens, cookie, terminated, inflight>>
    /\ resp' = NoRequest

\* ------------------------------------------------------------- environment
\* The active flag of a row is set outside the request handlers (a row is
\* deactivated, never deleted).
set_active(u, flag) ==
    /\ u \in DOMAIN users
    /\ users[u].is_active # flag
    /\ users' = [users EXCEPT ![u].is_active = flag]
    /\ UNCHANGED <<clients, projects, db_created, tokens, cookie, terminated, inflight>>
    /\ resp' = NoRequest

\* The session is a cookie signed with SECRET_KEY and kept by the client, and
\* the server keeps no list of the cookies it issued: a client can present
\* again any cookie it was ever sent.
replay_cookie(t) ==
    /\ t \in DOMAIN tokens
    /\ cookie # t
    /\ cookie' = t
    /\ UNCHANGED <<users, clients, projects, db_created, tokens, terminated, inflight>>
    /\ resp' = NoRequest

\* ------------------------------------------------------------ specification
ProjectRow(i, user_id, status) ==
    [id |-> i, title |-> "Site", status |-> status, client_id |-> 1, user_id |-> user_id]

InitProjects ==
    {<<ProjectRow(1, 1, "completed"), ProjectRow(2, 2, "in_progress")>>}

Init ==
    /\ users \in InitUsers
    /\ clients = <<>>
    /\ projects \in InitProjects
    /\ db_created = FALSE
    /\ tokens = <<>>
    /\ cookie = NoToken
    /\ terminated = {}
    /\ resp = NoRequest
    /\ inflight = <<>>

FormsOf(method, forms) == IF method = "GET" THEN {NoForm} ELSE forms

\* Requests served one at a time, from arrival to response.
Next ==
    \/ initialize_database
    \/ \E m \in Methods : \E f \in FormsOf(m, LoginForms) : login(m, f)
    \/ \E m \in Methods : \E f \in FormsOf(m, LoginForms) : auth_login(m, f)
    \/ logout
    \/ auth_logout
    \/ index
    \/ admin_dashboard
    \/ admin_clients
    \/ \E m \in Methods : \E f \in FormsOf(m, ClientForms) : add_client(m, f)
    \/ client_dashboard
    \/ \E m \in Methods : \E f \in FormsOf(m, ProfileForms) : client_profile(m, f)
    \/ \E u \in DOMAIN users, flag \in BOOLEAN : set_active(u, flag)
    \/ \E t \in DOMAIN tokens : replay_cookie(t)

Spec == Init /\ [][Next]_vars


\* ------------------------------------------------------------------ routes
LoginRoutes == {"login", "auth.login"}
AdminRoutes == {"admin_dashboard", "admin_clients", "add_client"}
ClientRoutes == {"client_dashboard", "client_profile"}
ProtectedRoutes == AdminRoutes \cup ClientRoutes \cup {"logout", "auth.logout"}

\* The role a protected route is for.
RequiredRole(route) == IF route \in AdminRoutes THEN "admin" ELSE "client"

\* The landing page of a role, under either naming of the endpoints.
IsLanding(target, role) ==
    IF role = "admin" THEN target \in {"admin_dashboard", "admin.dashboard"}
    ELSE target \in {"client_dashboard", "client.dashboard"}

\* r answers a login POST of an anonymous session.
LoginPost(r) == r.route \in LoginRoutes /\ r.method = "POST" /\ r.user = Anonymous

\* The stored identity the email of login POST r names, 0 when there is none.
Named(r) == find_by_email(r.form.email)

\* r answers a login POST whose password is the one stored for its email.
ValidCredentials(r) ==
    /\ LoginPost(r)
    /\ Named(r) # 0
    /\ r.form.password # None
    /\ users[Named(r)].password_hash = generate_password_hash(r.form.password)

\* ------------------------------------------------------------------ claims

\* C1: an identity whose active flag is false is never resolved from a
\* session: whenever a request resolves an identity, that identity is active.
C1_InactiveNeverResolved ==
    resp.user # Anonymous => resp.user_active

\* C2: on every protected admin or client route, the handler body touches
\* data only when the role of the authenticated identity is the role the route
\* requires, and an identity of the other role is denied with a redirect.
C2_RoleGuardExhaustive ==
    (resp.route \in AdminRoutes \cup ClientRoutes /\ resp.user # Anonymous)
    => /\ resp.body => resp.role = RequiredRole(resp.route)
       /\ resp.role # RequiredRole(resp.route)
          => (resp.status = "redirect" /\ ~resp.body)

\* C3: a login POST with the valid credentials of an active identity is
\* answered by a redirect, not a fault, and the session it leaves resolves to
\* that identity's id.
C3_LoginEstablishesSession ==
    (ValidCredentials(resp) /\ users[Named(resp)].is_active)
    => /\ resp.status = "redirect"
       /\ resp.session # NoToken
       /\ current_user = Named(resp)

C5_DeactivatedLoginRefused ==
    (ValidCredentials(resp) /\ ~users[Named(resp)].is_active)
    => /\ resp.status = "redirect"
       /\ resp.target = resp.route
       /\ resp.flash = AccountDeactivated
       /\ resp.session = NoToken

\* C6: once a logout has been answered for a session cookie, no later request
\* presenting that cookie (a kept copy included) resolves an identity.
C6_LogoutInvalidatesToken ==
    resp.replayed => resp.user = Anonymous

\* C7: a client-role identity requesting an admin route, by GET or POST, is
\* denied and redirected to the client dashboard, and the request leaves the
\* store as it was: a POST to add_client creates no Client row.
C7_ClientDeniedOnAdminRoutes ==
    [][(resp'.route \in AdminRoutes /\ resp'.role = "client")
       => /\ resp'.status = "redirect"
          /\ resp'.target = "client_dashboard"
          /\ resp'.flash = AccessDenied
          /\ ~resp'.body
          /\ UNCHANGED <<users, clients, projects>>]_vars

\* C7 witness: a client's POST to add_client was denied.
C7_Witness ==
    /\ resp.route = "add_client"
    /\ resp.method = "POST"
    /\ resp.role = "client"
    /\ resp.flash = AccessDenied

\* C8: the Client row add_client creates is owned by the identity whose
\* session made the request, whatever owner field the payload carries.
C8_OwnerFromSession ==
    (resp.route = "add_client" /\ resp.method = "POST" /\ resp.flash = ClientAdded)
    => /\ Len(clients) > 0
       /\ clients[Len(clients)].admin_id = resp.user
       /\ resp.role = "admin"

\* C8 witness: a row was created from a payload naming another owner.
C8_Witness ==
    /\ resp.route = "add_client"
    /\ resp.flash = ClientAdded
    /\ resp.form.admin_id # 0
    /\ resp.form.admin_id # resp.user
    /\ Len(clients) > 0

\* C9: a request to a protected route that resolves to Anonymous is redirected
\* to login; neither the role guard nor the handler body is reached, and the
\* session is left as it was.
C9_AnonymousRedirectedToLogin ==
    (resp.route \in ProtectedRoutes /\ resp.user = Anonymous)
    => /\ resp.status = "redirect"
       /\ resp.target = "login"
       /\ ~resp.guard
       /\ ~resp.body
       /\ resp.session = resp.token

\* C9 witness: an anonymous request to /admin/add-client was sent to login.
C9_Witness ==
    /\ resp.route = "add_client"
    /\ resp.method = "POST"
    /\ resp.user = Anonymous
    /\ resp.target = "login"

\* C10: the role-to-landing mapping is the same at its three places: a login
\* that established a session, an authenticated visit of the login page, and
\* a guard denial each send an admin to the admin dashboard and a client to
\* the client dashboard, and a denial never leads back to the denied page.
C10_LandingUsedUniformly ==
    /\ (LoginPost(resp) /\ resp.session # NoToken)
       => (resp.status = "redirect"
           /\ IsLanding(resp.target, users[current_user].role))
    /\ (resp.route \in LoginRoutes /\ resp.user # Anonymous)
       => (resp.status = "redirect" /\ IsLanding(resp.target, resp.role))
    /\ (resp.guard /\ ~resp.body /\ resp.status = "redirect")
       => (IsLanding(resp.target, resp.role) /\ resp.target # resp.route)


\* ------------------------------------------------------------------ C11
LogoutRoutes == {"logout", "auth.logout"}

\* C11: terminating a session is idempotent. A logout request is never
\* answered with a fault: it is answered with a redirect and leaves the
\* session Anonymous, whether the session was bound to an Identity (the first
\* logout) or was already Anonymous because an earlier logout ended it (the
\* second logout).
C11_LogoutIdempotent ==
    resp.route \in LogoutRoutes =>
        /\ resp.status = "redirect"
        /\ resp.session = NoToken
        /\ current_user = Anonymous

\* A logout request sent on a session that an earlier logout already ended.
C11_Witness ==
    /\ resp.route \in LogoutRoutes
    /\ resp.token = NoToken
    /\ resp.user = Anonymous
    /\ terminated # {}
    /\ resp.status = "redirect"
    /\ cookie = NoToken


\* ------------------------------------------------------------------ C12
\* The cases of the error taxonomy, read off the request that was answered.
ErrInvalidCredentials(r) ==
    LoginPost(r) /\ r.form.password # None /\ ~ValidCredentials(r)

ErrAccountDeactivated(r) == ValidCredentials(r) /\ ~users[Named(r)].is_active

ErrUnauthenticated(r) == r.route \in ProtectedRoutes /\ r.user = Anonymous

ErrForbidden(r) == r.route \in AdminRoutes /\ r.role = "client"

\* POST /admin/add-client by an admin without company name or without email.
ErrValidation(r) ==
    /\ r.route = "add_client"
    /\ r.method = "POST"
    /\ r.role = "admin"
    /\ r.form.company_name = None \/ r.form.email = None

\* C12: every error of the taxonomy is recovered at the request boundary: the
\* request is answered with a notification and a redirect, never with an
\* unhandled fault. In particular an admin's POST /admin/add-client that lacks
\* the company name or the email is answered with a notification other than
\* the success message and a redirect, and no Client row without company name
\* or email is stored.
C12_ErrorsRecovered ==
    /\ (\/ ErrInvalidCredentials(resp)
        \/ ErrAccountDeactivated(resp)
        \/ ErrUnauthenticated(resp)
        \/ ErrForbidden(resp)
        \/ ErrValidation(resp))
       => (resp.status = "redirect" /\ resp.flash # NoFlash)
    /\ ErrValidation(resp) => resp.flash # ClientAdded
    /\ \A i \in DOMAIN clients :
           clients[i].company_name # None /\ clients[i].email # None


\* ------------------------------------------------------------------ C13
\* Requests handled concurrently. A request is received with the cookie the
\* client held when it sent it; flask_login resolves current_user from that
\* cookie alone, by load_user; the view then runs and the response is sent.
\* The steps of different requests interleave freely: the workers share the
\* database and nothing else.
MaxInflight == 2

RaceRoutes == {"logout", "auth.logout", "client_profile"}

receive(route) ==
    /\ db_created
    /\ cookie # NoToken
    /\ Len(inflight) < MaxInflight
    /\ inflight' = Append(inflight, [route |-> route, token |-> cookie,
                                     pc |-> "received", user |-> Anonymous,
                                     late |-> FALSE])
    /\ UNCHANGED <<users, clients, projects, db_created, tokens, cookie,
                   terminated, resp>>

\* load_user(session['_user_id']); late records whether a logout of the same
\* token had already been answered when the identity was resolved.
resolve(i) ==
    /\ i \in DOMAIN inflight
    /\ inflight[i].pc = "received"
    /\ inflight' = [inflight EXCEPT ![i].pc = "resolved",
                                    ![i].user = load_user(tokens[inflight[i].token].user_id),
                                    ![i].late = inflight[i].token \in terminated]
    /\ UNCHANGED <<users, clients, projects, db_created, tokens, cookie,
                   terminated, resp>>

\* The view runs and the response is sent. A logout view calls logout_user:
\* the response carries an anonymous session cookie, which replaces the one
\* the client holds. The other views leave the session as it is.
respond(i) ==
    /\ i \in DOMAIN inflight
    /\ inflight[i].pc = "resolved"
    /\ inflight' = [k \in 1..(Len(inflight) - 1) |->
                        IF k < i THEN inflight[k] ELSE inflight[k + 1]]
    /\ IF inflight[i].route \in LogoutRoutes /\ inflight[i].user # Anonymous
       THEN /\ cookie' = NoToken
            /\ terminated' = terminated \cup {inflight[i].token}
       ELSE UNCHANGED <<cookie, terminated>>
    /\ UNCHANGED <<users, clients, projects, db_created, tokens, resp>>

RaceNext ==
    \/ initialize_database
    \/ \E f \in LoginForms : auth_login("POST", f)
    \/ \E u \in DOMAIN users, flag \in BOOLEAN : set_active(u, flag)
    \/ \E route \in RaceRoutes : receive(route)
    \/ \E i \in DOMAIN inflight : resolve(i)
    \/ \E i \in DOMAIN inflight : respond(i)

SpecRace == Init /\ [][RaceNext]_vars

\* C13: resolving a session is safe concurrently with its termination. Under
\* every interleaving of a logout request with another request that carries
\* the same token, the other request resolves either the Identity the token
\* is bound to or Anonymous, and it never resolves an Identity once the
\* logout has taken effect (its response has been sent).
C13_ResolveSafeWithLogout ==
    \A i \in DOMAIN inflight :
        inflight[i].pc = "resolved" =>
            /\ inflight[i].user \in
                   {Anonymous, tokens[inflight[i].token].user_id}
            /\ inflight[i].late => inflight[i].user = Anonymous


\* ------------------------------------------------------------------ C14
\* The application started on any store: project rows of any owner and
\* status, client rows created by any admin.
MaxProjects == 2

Statuses == {"pending", "in_progress", "completed"}

AnyProjects ==
    UNION {{[i \in 1..n |-> ProjectRow(i, o[i], st[i])] :
             o \in [1..n -> 1..(MaxProvisioned + 1)], st \in [1..n -> Statuses]}
           : n \in 0..MaxProjects}

AnyClients ==
    UNION {{[i \in 1..n |-> [id |-> i, company_name |-> "Acme",
                             contact_person |-> None,
                             email |-> "office@acme.example", phone |-> None,
                             address |-> None, industry |-> None,
                             status |-> "active", admin_id |-> a[i]]] :
             a \in [1..n -> 1..(MaxProvisioned + 1)]}
           : n \in 0..MaxClients}

StoreInit ==
    /\ users \in InitUsers
    /\ clients \in AnyClients
    /\ projects \in AnyProjects
    /\ db_created = FALSE
    /\ tokens = <<>>
    /\ cookie = NoToken
    /\ terminated = {}
    /\ resp = NoRequest
    /\ inflight = <<>>

StoreNext ==
    \/ initialize_database
    \/ \E f \in LoginForms : auth_login("POST", f)
    \/ auth_logout
    \/ admin_clients
    \/ \E f \in ClientForms : add_client("POST", f)
    \/ client_dashboard

SpecStore == StoreInit /\ [][StoreNext]_vars

\* The project rows of identity u, by position in the table.
Owned(u) == {i \in DOMAIN projects : projects[i].user_id = u}

\* C14: the client dashboard is scoped to the requesting identity: whatever
\* the store holds, the project list shown to identity u holds exactly the
\* Project rows whose user_id is u's id, and the counts are the counts of
\* those rows; the admin client list is the whole Client table, whoever
\* created the rows.
C14_DashboardScoped ==
    /\ (resp.route = "client_dashboard" /\ resp.status = "render") =>
           LET shown == resp.data.projects
               stats == resp.data.stats
           IN  /\ \A k \in DOMAIN shown : shown[k].user_id = users[resp.user].id
               /\ {shown[k].id : k \in DOMAIN shown}
                     = {projects[i].id : i \in Owned(users[resp.user].id)}
               /\ Len(shown) = Cardinality(Owned(users[resp.user].id))
               /\ stats.total_projects = Cardinality(Owned(users[resp.user].id))
               /\ stats.completed_projects = Cardinality(
                      {i \in Owned(users[resp.user].id) :
                          projects[i].status = "completed"})
               /\ stats.active_projects = Cardinality(
                      {i \in Owned(users[resp.user].id) :
                          projects[i].status = "in_progress"})
    /\ (resp.route = "admin_clients" /\ resp.status = "render") =>
           resp.data.clients = clients

\* A client is shown its dashboard on a store that holds a project of its own
\* and a project of another identity.
C14_Witness ==
    /\ resp.route = "client_dashboard"
    /\ resp.status = "render"
    /\ resp.role = "client"
    /\ Len(resp.data.projects) = 1
    /\ Len(projects) = 2
    /\ \E i \in DOMAIN projects : projects[i].user_id # users[resp.user].id


\* ------------------------------------------------------------------ C15
\* The columns of an Identity a profile update must leave as they are.
FixedFields == {"id", "username", "email", "password_hash", "role", "is_active"}

\* C15: the role of an Identity never changes after its creation: no step
\* changes the role of a stored Identity. A profile update POST changes only
\* first_name, last_name and phone of the requesting Identity: its role, email,
\* username, password hash and active flag stay as they were, every other
\* Identity is unchanged, and no Identity is added or removed.
C15_RoleImmutable ==
    [][/\ \A i \in DOMAIN users :
              i \in DOMAIN users' /\ users'[i].role = users[i].role
       /\ (/\ resp'.route = "client_profile"
           /\ resp'.method = "POST"
           /\ resp'.user # Anonymous)
          => /\ DOMAIN users' = DOMAIN users
             /\ \A i \in DOMAIN users :
                    IF i = resp'.user
                    THEN /\ \A f \in FixedFields : users'[i][f] = users[i][f]
                         /\ users'[i].first_name = resp'.form.first_name
                         /\ users'[i].last_name = resp'.form.last_name
                         /\ users'[i].phone = resp'.form.phone
                    ELSE users'[i] = users[i]
             /\ UNCHANGED <<clients, projects>>]_vars

\* A profile update POST has rewritten the name of the requesting client.
C15_Witness ==
    /\ resp.route = "client_profile"
    /\ resp.method = "POST"
    /\ resp.flash = ProfileUpdated
    /\ resp.role = "client"
    /\ users[resp.user].first_name = "Pat"
    /\ users[resp.user].role = "client"


\* ------------------------------------------------------------------ C16
\* The identities stored under the reserved admin email.
SeededAdmins(rows) == {i \in DOMAIN rows : rows[i].email = AdminEmail}

\* C16: the bootstrap seeds the admin only if no Identity has the reserved
\* admin email. After any number of bootstrap runs, interleaved with any other
\* operations, exactly one Identity has the email admin@company.com, emails
\* and usernames are unique across the store, and a bootstrap run that finds
\* the admin present leaves the store unchanged.
C16_BootstrapOnce ==
    [][/\ db_created' => Cardinality(SeededAdmins(users')) = 1
       /\ \A i, j \in DOMAIN users' :
              i # j => /\ users'[i].email # users'[j].email
                       /\ users'[i].username # users'[j].username
       /\ (initialize_database /\ SeededAdmins(users) # {})
              => UNCHANGED <<users, clients, projects>>]_vars

\* The bootstrap has run on a store that other operations have also written
\* to (an admin has logged in and added a client), and a single seeded admin
\* is stored next to the provisioned identity.
C16_Witness ==
    /\ db_created
    /\ Cardinality(SeededAdmins(users)) = 1
    /\ Len(users) = MaxProvisioned + 1
    /\ clients # <<>>
    /\ tokens # <<>>


\* ------------------------------------------------------------------ C17
Roles == {"admin", "client"}

\* C17: the role router is total, with no third case: in every state reached
\* through bootstrap, login, logout, add-client and profile-update, the role
\* of every stored Identity is admin or client, so the role a request
\* resolves is one of the two and a redirect chosen by role is chosen on one
\* of its two intended branches.
C17_RolesTwoValued ==
    /\ \A i \in DOMAIN users : users[i].role \in Roles
    /\ resp.user # Anonymous => resp.role \in Roles

\* The seeded admin and a provisioned client are stored, and a login has just
\* been redirected by the role of the client.
C17_Witness ==
    /\ db_created
    /\ {users[i].role : i \in DOMAIN users} = Roles
    /\ resp.route = "auth.login"
    /\ resp.flash = LoggedIn
    /\ resp.target = auth_landing("client")
    /\ users[current_user].role = "client"


\* ------------------------------------------------------------------ C18
\* C18: a session resolves to one identity at a time, and a login request on
\* an authenticated session never rebinds it: a GET or POST to a login route
\* while authenticated as u, whatever credentials it carries, is answered with
\* a redirect to the landing page of u's role and leaves the session bound
\* to u.
C18_LoginNeverRebinds ==
    (resp.route \in LoginRoutes /\ resp.user # Anonymous) =>
        /\ resp.status = "redirect"
        /\ IsLanding(resp.target, resp.role)
        /\ resp.session = resp.token
        /\ current_user = resp.user


\* ------------------------------------------------------------------ C19
\* The routes app.py serves.
AppRoutes ==
    {"index", "login", "logout"} \cup AdminRoutes \cup ClientRoutes

\* C19: redirects always terminate. From any route of the application and any
\* session (Anonymous, admin or client), a client that follows the redirects
\* it is answered with gets a rendered page after at most two hops: every
\* redirect leads to a route the application serves, a followed redirect is
\* never answered with a fault, and a request reached by two hops is answered
\* with a page. So the denial redirect of the admin routes to the client
\* dashboard and the redirect of the client dashboard to the admin dashboard
\* never form a cycle.
C19_RedirectsTerminate ==
    resp.route \in AppRoutes =>
        /\ resp.hops <= 2
        /\ resp.status = "redirect" =>
               /\ resp.target \in AppRoutes
               /\ resp.hops < 2
        /\ resp.hops >= 1 => resp.status \in {"render", "redirect"}
        /\ resp.hops = 2 => resp.status = "render"

\* A client has followed a redirect to the client dashboard (the denial of an
\* admin route, or the login view's redirect) and was shown the page.
C19_Witness ==
    /\ resp.route = "client_dashboard"
    /\ resp.role = "client"
    /\ resp.hops = 1
    /\ resp.status = "render"

====
